---- MODULE Spec2Model ----
(***************************************************************************)
(* Model of the key-value store of centodiechi/store: the durable backend  *)
(* (PgStore, postgres.go) with its TTL cleanup goroutine, and the cache    *)
(* backend (RedisStore, redis.go), behind InitializeStore.                 *)
(*                                                                         *)
(* Time is counted in clock ticks of half a second (TicksPerSecond), so    *)
(* that time.Format(time.RFC3339), which renders whole seconds, is not the *)
(* identity.  One SQL statement or one Redis command is one atomic step;   *)
(* a handler that reads time.Now() and then runs its statement, or that    *)
(* runs two commands, takes two steps and other goroutines may run in      *)
(* between.  The variable ret holds what the step just taken returned to   *)
(* its caller (or, for the cleanup goroutine, what it logged).             *)
(*                                                                         *)
(* Spec is one store, of either backend, with one caller at a time between *)
(* the two steps of a Set, SetWithTTL or Get, any caller in CloseConn, any *)
(* number of one-step calls, the cleanup goroutine and the clock.          *)
(* SpecWriters and SpecRace are a durable store with callers whose writes  *)
(* overlap.  SpecBoth gives the same calls to a store of each backend,     *)
(* SpecCtx has callers whose context is done, SpecSweepFails and           *)
(* FairSweeper have sweep passes that fail, SpecInit starts before         *)
(* InitializeStore, and SpecQuery adds the pattern query, whose            *)
(* implementation is not among the source files.                           *)
(***************************************************************************)
EXTENDS Integers, FiniteSets, Sequences, TLC

\* ---------------------------------------------------------------- bounds
MaxClock == 2
\* The largest limit and the largest offset of a query.
MaxLimit == 2
MaxOffset == 2

Keys == {"k1", "k2"}
Values == {"a", "b"}
Callers == {"c1", "c2"}
Providers == {"pgsql", "redis"}
Durations == {1}
\* The caller of Spec that may be between the two steps of a write or a read.
OneCaller == {"c1"}

\* ------------------------------------------------------------- constants
\* time.RFC3339 has a resolution of one second; the clock ticks twice a second.
TicksPerSecond == 2
\* The zero value of time.Time, which Set writes to expires_at.
ZeroTime == 0
\* go-redis: an expiration of 0 sets a key without expiry.
NoExpiry == 0

VARIABLES
    provider,       \* the backend InitializeStore constructed
    now,            \* the wall clock, in ticks
    rows,           \* PgStore: the rows of the records table
    cancelled,      \* PgStore: pgCtx is done (cancel() was called)
    dbClosed,       \* PgStore: sqlDB.Close() has run
    tickPending,    \* PgStore: ticker.C holds a tick (channel of capacity 1)
    tickerStopped,  \* PgStore: ticker.Stop() has run
    sweeper,        \* PgStore: the cleanupRoutine goroutine: [pc, now]
    rdata,          \* RedisStore: the server's keyspace, key -> entry
    rClosed,        \* RedisStore: client.Close() has run
    pend,           \* per caller: the call in progress, between two steps
    ret             \* what the step just taken returned or logged, if anything

vars == <<provider, now, rows, cancelled, dbClosed, tickPending,
          tickerStopped, sweeper, rdata, rClosed, pend, ret>>

pgVars == <<rows, cancelled, dbClosed, tickPending, tickerStopped, sweeper>>
redisVars == <<rdata, rClosed>>

\* ------------------------------------------------------------ data model
\* type Record struct {Key, Value, IsTTLBased, ExpiresAt, Timestamp}
Record(k, v, ttl, exp, ts) ==
    [key |-> k, value |-> v, isTTLBased |-> ttl, expiresAt |-> exp, timestamp |-> ts]

\* A Redis key: its value and the time the server expires it at.
Absent == [present |-> FALSE, value |-> "", expireAt |-> NoExpiry]
RedisEntry(v, exp) == [present |-> TRUE, value |-> v, expireAt |-> exp]

\* No call in progress.
NoCall == [op |-> "none"]

\* The return values of a Store call.  status is "OK", "KeyNotFound" (the
\* ".. not found" errors) or "Error" (any other error); value and the TsMeta
\* fields are "" when the call returns none; removed is the set of rows the
\* statement took out of the table: the rows a DELETE affected (the code
\* reads their number, RowsAffected), the row an upsert replaced.
Result(op, k, status, v, created, expires, removed) ==
    [op |-> op, key |-> k, status |-> status, value |-> v,
     createdAt |-> created, expiresAt |-> expires, removed |-> removed]
NoResult == Result("none", "", "", "", "", "", {})
Plain(op, k, status) == Result(op, k, status, "", "", "", {})

\* t.Format(time.RFC3339): the time rendered with a resolution of one second.
RFC3339(t) == t \div TicksPerSecond

\* The rows stored under a key.
RowsOf(table, k) == {r \in table : r.key = k}

\* INSERT .. ON CONFLICT (key) DO UPDATE SET value, is_ttl_based, expires_at, ts:
\* the row of the same key, if any, is replaced as a whole.
UpsertAppends(table, rec) == table \cup {rec}
UpsertNewestWins(table, rec) ==
    IF \E r \in table : r.key = rec.key /\ r.timestamp > rec.timestamp
      THEN table
      ELSE {r \in table : r.key # rec.key} \cup {rec}
Upsert(table, rec) == {r \in table : r.key # rec.key} \cup {rec}

\* WHERE is_ttl_based = true AND expires_at <= at
ExpiredBefore(table, at) == {r \in table : r.isTTLBased /\ r.expiresAt < at}
ExpiredAnyKind(table, at) == {r \in table : r.expiresAt <= at}
Expired(table, at) == {r \in table : r.isTTLBased /\ r.expiresAt <= at}

\* ------------------------------------------------------------------ Init
\* InitializeStore with NewPostgresStore or NewRedisStore: an empty store;
\* for PgStore the ticker is created and the cleanup goroutine is at its select.
Init ==
    /\ provider \in Providers
    /\ now = 1
    /\ rows = {}
    /\ cancelled = FALSE
    /\ dbClosed = FALSE
    /\ tickPending = FALSE
    /\ tickerStopped = FALSE
    /\ sweeper = [pc |-> "Idle", now |-> 0]
    /\ rdata = [k \in Keys |-> Absent]
    /\ rClosed = FALSE
    /\ pend = [c \in Callers |-> NoCall]
    /\ ret = NoResult

\* ------------------------------------------------------ PgStore handlers
\* PgStore.Set, first half: the Record literal, which reads time.Now().
PgSetBegin(c, k, v) ==
    /\ provider = "pgsql"
    /\ pend[c] = NoCall
    /\ pend' = [pend EXCEPT ![c] =
                  [op |-> "Set", rec |-> Record(k, v, FALSE, ZeroTime, now)]]
    /\ ret' = NoResult
    /\ UNCHANGED <<provider, now, pgVars, redisVars>>

\* PgStore.SetWithTTL, first half: now := time.Now() and the Record literal.
PgSetWithTTLBegin(c, k, v, d) ==
    /\ provider = "pgsql"
    /\ pend[c] = NoCall
    /\ pend' = [pend EXCEPT ![c] =
                  [op |-> "SetWithTTL", rec |-> Record(k, v, TRUE, now + d, now)]]
    /\ ret' = NoResult
    /\ UNCHANGED <<provider, now, pgVars, redisVars>>

\* PgStore.Set / SetWithTTL, second half: the upsert statement and the return.
PgSetCommitInsertOnly(c) ==
    /\ provider = "pgsql"
    /\ pend[c].op \in {"Set", "SetWithTTL"}
    /\ IF dbClosed \/ RowsOf(rows, pend[c].rec.key) # {}
         THEN /\ ret' = Plain(pend[c].op, pend[c].rec.key, "Error")
              /\ rows' = rows
         ELSE /\ rows' = rows \cup {pend[c].rec}
              /\ ret' = Plain(pend[c].op, pend[c].rec.key, "OK")
    /\ pend' = [pend EXCEPT ![c] = NoCall]
    /\ UNCHANGED <<provider, now, cancelled, dbClosed, tickPending,
                   tickerStopped, sweeper, redisVars>>

PgSetCommit(c) ==
    /\ provider = "pgsql"
    /\ pend[c].op \in {"Set", "SetWithTTL"}
    /\ IF dbClosed
         THEN /\ ret' = Plain(pend[c].op, pend[c].rec.key, "Error")
              /\ rows' = rows
         ELSE /\ rows' = Upsert(rows, pend[c].rec)
              /\ ret' = Result(pend[c].op, pend[c].rec.key, "OK", "", "", "",
                               rows \ Upsert(rows, pend[c].rec))
    /\ pend' = [pend EXCEPT ![c] = NoCall]
    /\ UNCHANGED <<provider, now, cancelled, dbClosed, tickPending,
                   tickerStopped, sweeper, redisVars>>

\* PgStore.Get: what it returns; one SELECT .. WHERE key = ? .. LIMIT 1, then
\* the TsMeta built from the row.
PgGetResult(k) ==
    IF dbClosed THEN Plain("Get", k, "Error")
    ELSE IF RowsOf(rows, k) = {} THEN Plain("Get", k, "KeyNotFound")
    ELSE LET record == CHOOSE r \in RowsOf(rows, k) : TRUE
         IN  Result("Get", k, "OK", record.value,
                    RFC3339(record.timestamp),
                    IF record.isTTLBased THEN RFC3339(record.expiresAt) ELSE "",
                    {})

PgGet(k) ==
    /\ provider = "pgsql"
    /\ ret' = PgGetResult(k)
    /\ UNCHANGED <<provider, now, pgVars, redisVars, pend>>

\* PgStore.Delete: one DELETE .. WHERE key = ?, then the RowsAffected test.
PgDeleteLiveOnly(k) ==
    /\ provider = "pgsql"
    /\ IF dbClosed
         THEN /\ ret' = Plain("Delete", k, "Error")
              /\ rows' = rows
         ELSE /\ rows' = rows \ (RowsOf(rows, k) \ Expired(rows, now))
              /\ ret' = Result("Delete", k,
                               IF RowsOf(rows, k) \ Expired(rows, now) = {}
                                 THEN "KeyNotFound" ELSE "OK",
                               "", "", "", RowsOf(rows, k) \ Expired(rows, now))
    /\ UNCHANGED <<provider, now, cancelled, dbClosed, tickPending,
                   tickerStopped, sweeper, redisVars, pend>>

PgDelete(k) ==
    /\ provider = "pgsql"
    /\ IF dbClosed
         THEN /\ ret' = Plain("Delete", k, "Error")
              /\ rows' = rows
         ELSE /\ rows' = rows \ RowsOf(rows, k)
              /\ ret' = Result("Delete", k,
                               IF Cardinality(RowsOf(rows, k)) = 0
                                 THEN "KeyNotFound" ELSE "OK",
                               "", "", "", RowsOf(rows, k))
    /\ UNCHANGED <<provider, now, cancelled, dbClosed, tickPending,
                   tickerStopped, sweeper, redisVars, pend>>

\* PgStore.CloseConn, first half: s.cancel().
PgCloseCancel(c) ==
    /\ provider = "pgsql"
    /\ pend[c] = NoCall
    /\ cancelled' = TRUE
    /\ pend' = [pend EXCEPT ![c] = [op |-> "CloseConn"]]
    /\ ret' = NoResult
    /\ UNCHANGED <<provider, now, rows, dbClosed, tickPending,
                   tickerStopped, sweeper, redisVars>>

\* PgStore.CloseConn, second half: sqlDB.Close(), which returns nil also when
\* the pool is closed already, and the return.
PgCloseDB(c) ==
    /\ provider = "pgsql"
    /\ pend[c].op = "CloseConn"
    /\ dbClosed' = TRUE
    /\ ret' = Plain("CloseConn", "", "OK")
    /\ pend' = [pend EXCEPT ![c] = NoCall]
    /\ UNCHANGED <<provider, now, rows, cancelled, tickPending,
                   tickerStopped, sweeper, redisVars>>

\* ------------------------------------------------- the cleanup goroutine
\* The runtime delivers a tick into ticker.C; a tick that finds the channel
\* full is dropped.
TickerFire ==
    /\ provider = "pgsql"
    /\ ~tickerStopped
    /\ ~tickPending
    /\ tickPending' = TRUE
    /\ ret' = NoResult
    /\ UNCHANGED <<provider, now, rows, cancelled, dbClosed,
                   tickerStopped, sweeper, redisVars, pend>>

\* cleanupRoutine, case <-s.ticker.C, up to now := time.Now() of
\* cleanExpiredRecords.  select takes any ready case: pgCtx being done does
\* not disable this one.
SweeperTick ==
    /\ provider = "pgsql"
    /\ sweeper.pc = "Idle"
    /\ tickPending
    /\ tickPending' = FALSE
    /\ sweeper' = [pc |-> "Running", now |-> now]
    /\ ret' = NoResult
    /\ UNCHANGED <<provider, now, rows, cancelled, dbClosed,
                   tickerStopped, redisVars, pend>>

\* cleanExpiredRecords: the DELETE statement, and the log line of the
\* result; an error is logged by cleanupRoutine and dropped.
SweeperDelete ==
    /\ provider = "pgsql"
    /\ sweeper.pc = "Running"
    /\ IF dbClosed
         THEN /\ rows' = rows
              /\ ret' = Plain("cleanExpiredRecords", "", "Error")
         ELSE /\ rows' = rows \ Expired(rows, sweeper.now)
              /\ ret' = Result("cleanExpiredRecords", "", "OK", "", "", "",
                               Expired(rows, sweeper.now))
    /\ sweeper' = [pc |-> "Idle", now |-> 0]
    /\ UNCHANGED <<provider, now, cancelled, dbClosed, tickPending,
                   tickerStopped, redisVars, pend>>

\* cleanupRoutine, case <-s.pgCtx.Done(): s.ticker.Stop() and return.
SweeperStopMidPass ==
    /\ provider = "pgsql"
    /\ sweeper.pc \in {"Idle", "Running"}
    /\ cancelled
    /\ tickerStopped' = TRUE
    /\ sweeper' = [pc |-> "Stopped", now |-> 0]
    /\ ret' = NoResult
    /\ UNCHANGED <<provider, now, rows, cancelled, dbClosed,
                   tickPending, redisVars, pend>>

SweeperStopKeepsTicker ==
    /\ provider = "pgsql"
    /\ sweeper.pc = "Idle"
    /\ cancelled
    /\ sweeper' = [pc |-> "Stopped", now |-> 0]
    /\ ret' = NoResult
    /\ UNCHANGED <<provider, now, rows, cancelled, dbClosed, tickerStopped,
                   tickPending, redisVars, pend>>

SweeperStop ==
    /\ provider = "pgsql"
    /\ sweeper.pc = "Idle"
    /\ cancelled
    /\ tickerStopped' = TRUE
    /\ sweeper' = [pc |-> "Stopped", now |-> 0]
    /\ ret' = NoResult
    /\ UNCHANGED <<provider, now, rows, cancelled, dbClosed,
                   tickPending, redisVars, pend>>

\* --------------------------------------------------- RedisStore handlers
\* Redis: a key with an expiry is visible until the expiry time is reached.
RedisLive(e) == e.present /\ (e.expireAt = NoExpiry \/ now < e.expireAt)

\* What the TTL command answers, in seconds: -2 for no key, -1 for a key
\* without expiry, else the remaining time rounded to the nearest second.
RedisTTL(e) ==
    IF ~RedisLive(e) THEN -2
    ELSE IF e.expireAt = NoExpiry THEN -1
    ELSE (e.expireAt - now + (TicksPerSecond \div 2)) \div TicksPerSecond

\* RedisStore.Set: SET key value.
RedisSet(k, v) ==
    /\ provider = "redis"
    /\ IF rClosed
         THEN /\ ret' = Plain("Set", k, "Error")
              /\ rdata' = rdata
         ELSE /\ rdata' = [rdata EXCEPT ![k] = RedisEntry(v, NoExpiry)]
              /\ ret' = Plain("Set", k, "OK")
    /\ UNCHANGED <<provider, now, pgVars, rClosed, pend>>

\* RedisStore.SetWithTTL: SET key value EX/PX duration.
RedisSetWithTTL(k, v, d) ==
    /\ provider = "redis"
    /\ IF rClosed
         THEN /\ ret' = Plain("SetWithTTL", k, "Error")
              /\ rdata' = rdata
         ELSE /\ rdata' = [rdata EXCEPT ![k] = RedisEntry(v, now + d)]
              /\ ret' = Plain("SetWithTTL", k, "OK")
    /\ UNCHANGED <<provider, now, pgVars, rClosed, pend>>

\* RedisStore.Get, first half: the GET command; redis.Nil is "key not found".
RedisGetBegin(c, k) ==
    /\ provider = "redis"
    /\ pend[c] = NoCall
    /\ IF rClosed
         THEN /\ ret' = Plain("Get", k, "Error")
              /\ pend' = pend
         ELSE IF ~RedisLive(rdata[k])
         THEN /\ ret' = Plain("Get", k, "KeyNotFound")
              /\ pend' = pend
         ELSE /\ ret' = NoResult
              /\ pend' = [pend EXCEPT ![c] =
                            [op |-> "Get", key |-> k, val |-> rdata[k].value]]
    /\ UNCHANGED <<provider, now, pgVars, redisVars>>

\* RedisStore.Get, second half: the TTL command and the TsMeta, whose
\* CreatedAt is time.Now() and whose ExpiresAt is time.Now().Add(ttl).
RedisGetTTL(c) ==
    /\ provider = "redis"
    /\ pend[c].op = "Get"
    /\ ret' = IF rClosed
                THEN Plain("Get", pend[c].key, "Error")
                ELSE LET ttl == RedisTTL(rdata[pend[c].key])
                     IN  Result("Get", pend[c].key, "OK", pend[c].val,
                                RFC3339(now),
                                IF ttl > 0
                                  THEN RFC3339(now + ttl * TicksPerSecond)
                                  ELSE "",
                                {})
    /\ pend' = [pend EXCEPT ![c] = NoCall]
    /\ UNCHANGED <<provider, now, pgVars, redisVars>>

\* RedisStore.Delete: DEL key, of which only the error is returned (the
\* number of keys removed is dropped).
RedisDelete(k) ==
    /\ provider = "redis"
    /\ IF rClosed
         THEN /\ ret' = Plain("Delete", k, "Error")
              /\ rdata' = rdata
         ELSE /\ rdata' = [rdata EXCEPT ![k] = Absent]
              /\ ret' = Plain("Delete", k, "OK")
    /\ UNCHANGED <<provider, now, pgVars, rClosed, pend>>

\* RedisStore.CloseConn: client.Close(), which answers "redis: client is
\* closed" when the client is closed already.
RedisCloseConn ==
    /\ provider = "redis"
    /\ ret' = Plain("CloseConn", "", IF rClosed THEN "Error" ELSE "OK")
    /\ rClosed' = TRUE
    /\ UNCHANGED <<provider, now, pgVars, rdata, pend>>

\* ----------------------------------------------------------- the clock
AdvanceClock ==
    /\ now < MaxClock
    /\ now' = now + 1
    /\ ret' = NoResult
    /\ UNCHANGED <<provider, pgVars, redisVars, pend>>

PgNext ==
    \/ \E c \in OneCaller, k \in Keys, v \in Values : PgSetBegin(c, k, v)
    \/ \E c \in OneCaller, k \in Keys, v \in Values, d \in Durations :
          PgSetWithTTLBegin(c, k, v, d)
    \/ \E c \in OneCaller : PgSetCommit(c)
    \/ \E k \in Keys : PgGet(k)
    \/ \E k \in Keys : PgDelete(k)
    \/ \E c \in Callers : PgCloseCancel(c)
    \/ \E c \in Callers : PgCloseDB(c)
    \/ TickerFire
    \/ SweeperTick
    \/ SweeperDelete
    \/ SweeperStop

RedisNext ==
    \/ \E k \in Keys, v \in Values : RedisSet(k, v)
    \/ \E k \in Keys, v \in Values, d \in Durations : RedisSetWithTTL(k, v, d)
    \/ \E c \in OneCaller, k \in Keys : RedisGetBegin(c, k)
    \/ \E c \in OneCaller : RedisGetTTL(c)
    \/ \E k \in Keys : RedisDelete(k)
    \/ RedisCloseConn

Next ==
    \/ PgNext
    \/ RedisNext
    \/ AdvanceClock

Spec == Init /\ [][Next]_vars

\* The runtime keeps delivering ticks and keeps scheduling the cleanup
\* goroutine.
FairSpec ==
    /\ Spec
    /\ WF_vars(TickerFire)
    /\ WF_vars(SweeperTick)
    /\ WF_vars(SweeperDelete)
    /\ WF_vars(SweeperStop)

\* Callers that only Set, concurrently, on a durable store, with readers.
InitWriters == Init /\ provider = "pgsql"

NextWriters ==
    \/ \E c \in Callers, k \in Keys, v \in Values : PgSetBegin(c, k, v)
    \/ \E c \in Callers : PgSetCommit(c)
    \/ \E k \in Keys : PgGet(k)
    \/ AdvanceClock

SpecWriters == InitWriters /\ [][NextWriters]_vars

\* Callers whose Set and SetWithTTL calls race on a durable store.
NextRace ==
    \/ \E c \in Callers, k \in Keys, v \in Values : PgSetBegin(c, k, v)
    \/ \E c \in Callers, k \in Keys, v \in Values, d \in Durations :
          PgSetWithTTLBegin(c, k, v, d)
    \/ \E c \in Callers : PgSetCommit(c)
    \/ \E k \in Keys : PgGet(k)
    \/ AdvanceClock

SpecRace == InitWriters /\ [][NextRace]_vars

\* ------------------------------------------- the two backends side by side
\* RedisStore.Get when no other command runs between its GET and its TTL.
RedisGetResult(k) ==
    IF rClosed THEN Plain("Get", k, "Error")
    ELSE IF ~RedisLive(rdata[k]) THEN Plain("Get", k, "KeyNotFound")
    ELSE LET ttl == RedisTTL(rdata[k])
         IN  Result("Get", k, "OK", rdata[k].value,
                    RFC3339(now),
                    IF ttl > 0 THEN RFC3339(now + ttl * TicksPerSecond) ELSE "",
                    {})

\* What one call returned on a durable store and on a cache store.
Both(op, k, durable, cache) ==
    [op |-> op, key |-> k, status |-> "", removed |-> {},
     durable |-> durable, cache |-> cache]

\* One caller issues the same call, at the same time, to a PgStore and to a
\* RedisStore and waits for both; rows is the table of the first, rdata the
\* keyspace of the second.  The cleanup goroutine of the PgStore runs.
BothSet(k, v) ==
    /\ provider = "pgsql"
    /\ rows' = Upsert(rows, Record(k, v, FALSE, ZeroTime, now))
    /\ rdata' = [rdata EXCEPT ![k] = RedisEntry(v, NoExpiry)]
    /\ ret' = Both("Set", k, Plain("Set", k, "OK"), Plain("Set", k, "OK"))
    /\ UNCHANGED <<provider, now, cancelled, dbClosed, tickPending,
                   tickerStopped, sweeper, rClosed, pend>>

BothSetWithTTL(k, v, d) ==
    /\ provider = "pgsql"
    /\ rows' = Upsert(rows, Record(k, v, TRUE, now + d, now))
    /\ rdata' = [rdata EXCEPT ![k] = RedisEntry(v, now + d)]
    /\ ret' = Both("SetWithTTL", k, Plain("SetWithTTL", k, "OK"),
                   Plain("SetWithTTL", k, "OK"))
    /\ UNCHANGED <<provider, now, cancelled, dbClosed, tickPending,
                   tickerStopped, sweeper, rClosed, pend>>

BothGet(k) ==
    /\ provider = "pgsql"
    /\ ret' = Both("Get", k, PgGetResult(k), RedisGetResult(k))
    /\ UNCHANGED <<provider, now, pgVars, redisVars, pend>>

BothDelete(k) ==
    /\ provider = "pgsql"
    /\ rows' = rows \ RowsOf(rows, k)
    /\ rdata' = [rdata EXCEPT ![k] = Absent]
    /\ ret' = Both("Delete", k,
                   Plain("Delete", k,
                         IF Cardinality(RowsOf(rows, k)) = 0
                           THEN "KeyNotFound" ELSE "OK"),
                   Plain("Delete", k, "OK"))
    /\ UNCHANGED <<provider, now, cancelled, dbClosed, tickPending,
                   tickerStopped, sweeper, rClosed, pend>>

NextBoth ==
    \/ \E k \in Keys, v \in Values : BothSet(k, v)
    \/ \E k \in Keys, v \in Values, d \in Durations : BothSetWithTTL(k, v, d)
    \/ \E k \in Keys : BothGet(k)
    \/ \E k \in Keys : BothDelete(k)
    \/ TickerFire
    \/ SweeperTick
    \/ SweeperDelete
    \/ AdvanceClock

SpecBoth == InitWriters /\ [][NextBoth]_vars

\* ------------------------------------------------- a sweep pass that fails
\* cleanExpiredRecords when the DELETE statement fails on an open connection
\* (result.Error != nil): no row is removed, the error goes back to
\* cleanupRoutine, which logs it and loops to its select.
SweeperDeleteFailsExits ==
    /\ provider = "pgsql"
    /\ sweeper.pc = "Running"
    /\ ~dbClosed
    /\ ret' = Plain("cleanExpiredRecords", "", "Error")
    /\ sweeper' = [pc |-> "Stopped", now |-> 0]
    /\ tickerStopped' = TRUE
    /\ UNCHANGED <<provider, now, rows, cancelled, dbClosed, tickPending,
                   redisVars, pend>>

SweeperDeleteFails ==
    /\ provider = "pgsql"
    /\ sweeper.pc = "Running"
    /\ ~dbClosed
    /\ ret' = Plain("cleanExpiredRecords", "", "Error")
    /\ sweeper' = [pc |-> "Idle", now |-> 0]
    /\ UNCHANGED <<provider, now, rows, cancelled, dbClosed, tickPending,
                   tickerStopped, redisVars, pend>>

\* A durable store whose DELETE of the expired rows may fail.
NextSweepFails ==
    \/ PgNext
    \/ AdvanceClock
    \/ SweeperDeleteFails

SpecSweepFails == InitWriters /\ [][NextSweepFails]_vars

\* The life of the cleanup goroutine on a durable store: writers with a
\* TTL, the ticker, sweep passes that succeed or fail, CloseConn, the clock.
NextSweeper ==
    \/ \E c \in OneCaller, k \in Keys, v \in Values, d \in Durations :
          PgSetWithTTLBegin(c, k, v, d)
    \/ \E c \in OneCaller : PgSetCommit(c)
    \/ \E c \in Callers : PgCloseCancel(c)
    \/ \E c \in Callers : PgCloseDB(c)
    \/ TickerFire
    \/ SweeperTick
    \/ SweeperDelete
    \/ SweeperDeleteFails
    \/ SweeperStop
    \/ AdvanceClock

\* The runtime keeps scheduling the cleanup goroutine, so a pass that has
\* started comes to its end; and select chooses among its ready cases at
\* random, so a goroutine that comes back to the select again and again
\* with pgCtx done takes the Done case at some point, ticks or no ticks.
FairSweeper ==
    /\ InitWriters
    /\ [][NextSweeper]_vars
    /\ WF_vars(SweeperDelete \/ SweeperDeleteFails)
    /\ SF_vars(SweeperStop)

\* ------------------------------------------------------- InitializeStore
\* The provider names a caller may pass: the supported ones and others.
Names == Providers \cup {"mongo", ""}

\* Before InitializeStore has returned a store: no adapter, no ticker, no
\* cleanup goroutine.
InitNoStore ==
    /\ provider = "none"
    /\ now = 1
    /\ rows = {}
    /\ cancelled = FALSE
    /\ dbClosed = FALSE
    /\ tickPending = FALSE
    /\ tickerStopped = FALSE
    /\ sweeper = [pc |-> "None", now |-> 0]
    /\ rdata = [k \in Keys |-> Absent]
    /\ rClosed = FALSE
    /\ pend = [c \in Callers |-> NoCall]
    /\ ret = NoResult

\* InitializeStore(provider, meta): the switch on the provider name.
\* connects says whether the constructor of the adapter reaches its server
\* (NewRedisStore: Ping; NewPostgresStore: gorm.Open, AutoMigrate); when it
\* does not, the constructor returns its error before it creates the ticker
\* and starts cleanupRoutine.
InitializeStoreDefaultsToPg(name, connects) ==
    /\ provider = "none"
    /\ IF name = "redis" /\ connects
         THEN /\ provider' = "redis"
              /\ sweeper' = sweeper
              /\ ret' = Plain("InitializeStore", name, "OK")
         ELSE IF name # "redis" /\ connects
         THEN /\ provider' = "pgsql"
              /\ sweeper' = [pc |-> "Idle", now |-> 0]
              /\ ret' = Plain("InitializeStore", name, "OK")
         ELSE /\ provider' = provider
              /\ sweeper' = sweeper
              /\ ret' = Plain("InitializeStore", name, "Error")
    /\ UNCHANGED <<now, rows, cancelled, dbClosed, tickPending,
                   tickerStopped, redisVars, pend>>

InitializeStore(name, connects) ==
    /\ provider = "none"
    /\ IF name = "redis"
         THEN IF connects
                THEN /\ provider' = "redis"
                     /\ sweeper' = sweeper
                     /\ ret' = Plain("InitializeStore", name, "OK")
                ELSE /\ provider' = provider
                     /\ sweeper' = sweeper
                     /\ ret' = Plain("InitializeStore", name, "Error")
         ELSE IF name = "pgsql"
         THEN IF connects
                THEN /\ provider' = "pgsql"
                     /\ sweeper' = [pc |-> "Idle", now |-> 0]
                     /\ ret' = Plain("InitializeStore", name, "OK")
                ELSE /\ provider' = provider
                     /\ sweeper' = sweeper
                     /\ ret' = Plain("InitializeStore", name, "Error")
         ELSE /\ provider' = provider
              /\ sweeper' = sweeper
              /\ ret' = Plain("InitializeStore", name, "ProviderNotFound")
    /\ UNCHANGED <<now, rows, cancelled, dbClosed, tickPending,
                   tickerStopped, redisVars, pend>>

\* A process that calls InitializeStore until it has a store, and then uses it.
NextInit ==
    \/ \E name \in Names, connects \in BOOLEAN : InitializeStore(name, connects)
    \/ Next

SpecInit == InitNoStore /\ [][NextInit]_vars

\* ---------------------------------------------------- the pattern query
\* GetByQuery(ctx, pattern, query, rest) is declared by the Store interface;
\* its implementation is not in the source files, so the query is modelled
\* from the specification of the query engine: keys matching a glob pattern,
\* lazy filtering of expired records, most recent first with ties broken by
\* key, the total counted before limit and offset are applied.

\* A key as the sequence of its characters, and its rank in key order.
KeyChars(k) == IF k = "k1" THEN <<"k", "1">> ELSE <<"k", "2">>
KeyRank(k) == IF k = "k1" THEN 1 ELSE 2

\* The patterns callers query with; "*" matches any sequence of characters.
Patterns == {<<"k", "*">>, <<"*", "2">>, <<"k", "1">>, <<"x", "*">>}

RECURSIVE Glob(_, _)
Glob(pat, str) ==
    IF pat = <<>> THEN str = <<>>
    ELSE IF Head(pat) = "*"
      THEN Glob(Tail(pat), str) \/ (str # <<>> /\ Glob(pat, Tail(str)))
      ELSE str # <<>> /\ Head(str) = Head(pat) /\ Glob(Tail(pat), Tail(str))

\* The records a query sees: those whose key matches, the expired left out.
Matching(table, pat, at) ==
    {r \in table \ Expired(table, at) : Glob(pat, KeyChars(r.key))}

\* The order of the result: descending timestamp, then ascending key.
Before(a, b) ==
    \/ a.timestamp > b.timestamp
    \/ a.timestamp = b.timestamp /\ KeyRank(a.key) < KeyRank(b.key)

Ordered(S) ==
    CHOOSE q \in [1..Cardinality(S) -> S] :
       \A i, j \in 1..Cardinality(S) : i < j => Before(q[i], q[j])

Min(a, b) == IF a < b THEN a ELSE b

\* What a query returns: the call, its page and the total it reports.
QueryResultTotalOfPage(pat, limit, offset) ==
    LET all == Ordered(Matching(rows, pat, now))
        page == SubSeq(all, offset + 1, Min(Len(all), offset + limit))
    IN  [op |-> "GetByQuery", key |-> "", status |-> "OK", removed |-> {},
         pattern |-> pat, limit |-> limit, offset |-> offset,
         page |-> page, total |-> Len(page)]

QueryResult(pat, limit, offset) ==
    LET all == Ordered(Matching(rows, pat, now))
        page == SubSeq(all, offset + 1, Min(Len(all), offset + limit))
    IN  [op |-> "GetByQuery", key |-> "", status |-> "OK", removed |-> {},
         pattern |-> pat, limit |-> limit, offset |-> offset,
         page |-> page, total |-> Len(all)]

GetByQuery(pat, limit, offset) ==
    /\ provider = "pgsql"
    /\ ret' = IF dbClosed THEN Plain("GetByQuery", "", "Error")
                         ELSE QueryResult(pat, limit, offset)
    /\ UNCHANGED <<provider, now, pgVars, redisVars, pend>>

\* A durable store with writers, Delete, the clock and the pattern query.
NextQuery ==
    \/ \E c \in OneCaller, k \in Keys, v \in Values : PgSetBegin(c, k, v)
    \/ \E c \in OneCaller, k \in Keys, v \in Values, d \in Durations :
          PgSetWithTTLBegin(c, k, v, d)
    \/ \E c \in OneCaller : PgSetCommit(c)
    \/ \E k \in Keys : PgDelete(k)
    \/ \E pat \in Patterns, limit \in 0..MaxLimit, offset \in 0..MaxOffset :
          GetByQuery(pat, limit, offset)
    \/ AdvanceClock

SpecQuery == InitWriters /\ [][NextQuery]_vars

\* ------------------------------------------------ the callers' contexts
\* Every Store method takes the caller's context.Context first.  A context
\* is live, or done: cancelled, or past its deadline.
Contexts == {"live", "done"}

\* The context each caller passes to its calls: c2 calls with a context that
\* is done already.
CtxOf(c) == IF c = "c2" THEN "done" ELSE "live"

\* PgStore.Get and PgStore.Delete as called by c with CtxOf(c): the handlers
\* run their statement on s.db, they do not read ctx.
PgGetBy(c, k) ==
    /\ CtxOf(c) \in Contexts
    /\ PgGet(k)

PgDeleteBy(c, k) ==
    /\ CtxOf(c) \in Contexts
    /\ PgDelete(k)

\* The callers whose context is done.
DoneCallers == {c \in Callers : CtxOf(c) = "done"}

\* A durable store whose callers pass their contexts: the writes of the
\* callers whose context is done, and the Get, Delete and CloseConn of all.
\* PgStore.Set and PgStore.SetWithTTL do not read ctx either.
NextCtx ==
    \/ \E c \in DoneCallers, k \in Keys, v \in Values : PgSetBegin(c, k, v)
    \/ \E c \in DoneCallers, k \in Keys, v \in Values, d \in Durations :
          PgSetWithTTLBegin(c, k, v, d)
    \/ \E c \in DoneCallers : PgSetCommit(c)
    \/ \E c \in Callers, k \in Keys : PgGetBy(c, k)
    \/ \E c \in Callers, k \in Keys : PgDeleteBy(c, k)
    \/ \E c \in Callers : PgCloseCancel(c)
    \/ \E c \in Callers : PgCloseDB(c)
    \/ TickerFire
    \/ SweeperTick
    \/ SweeperDelete
    \/ SweeperStop
    \/ AdvanceClock

SpecCtx == InitWriters /\ [][NextCtx]_vars

\* ---------------------------------------------------------------- claims
\* The row stored under a key, when there is exactly one.
TheRow(table, k) == CHOOSE r \in RowsOf(table, k) : TRUE

\* A TTL row whose expiry time the clock has reached: logically absent.
ExpiredUnswept(k) ==
    \E r \in RowsOf(rows, k) : r.isTTLBased /\ r.expiresAt <= now

\* C1: TTL visibility on the durable backend.  A Get(k) issued right after
\* SetWithTTL(k, v, d) has committed returns v with expiresAt = write time + d
\* (as RFC3339 renders it), and a Get(k) issued once the clock has reached the
\* expiry time fails with KeyNotFound, whether or not the sweeper has removed
\* the row.
C1_TTLVisibility ==
    [][ /\ \A c \in Callers, k \in Keys :
              (PgSetCommit(c) /\ pend[c].op = "SetWithTTL" /\ pend[c].rec.key = k
                 /\ ~dbClosed) =>
                 \E d \in Durations :
                    /\ PgGetResult(k)'.status = "OK"
                    /\ PgGetResult(k)'.value = pend[c].rec.value
                    /\ PgGetResult(k)'.expiresAt = RFC3339(pend[c].rec.timestamp + d)
                    /\ pend[c].rec.expiresAt = pend[c].rec.timestamp + d
        /\ \A k \in Keys :
              (PgGet(k) /\ ~dbClosed /\ ExpiredUnswept(k)) =>
                 ret'.status = "KeyNotFound"
      ]_vars

\* C2: upsert.  A Set(k, v2) that commits leaves exactly one record for k,
\* with value v2 and the TTL cleared, whatever was stored before (also a
\* record written by SetWithTTL); after any step there is at most one record
\* per key; on the cache backend Set leaves k with v2 and no expiry.
C2_Upsert ==
    [][ /\ \A k \in Keys : Cardinality(RowsOf(rows', k)) <= 1
        /\ \A c \in Callers, k \in Keys :
              (PgSetCommit(c) /\ pend[c].op = "Set" /\ pend[c].rec.key = k
                 /\ ~dbClosed) =>
                 /\ Cardinality(RowsOf(rows', k)) = 1
                 /\ TheRow(rows', k).value = pend[c].rec.value
                 /\ TheRow(rows', k).isTTLBased = FALSE
                 /\ PgGetResult(k)'.expiresAt = ""
        /\ \A k \in Keys, v \in Values :
              (RedisSet(k, v) /\ ~rClosed) => rdata'[k] = RedisEntry(v, NoExpiry)
      ]_vars

\* C2 witness: a Set has just replaced a record that SetWithTTL wrote with
\* another value.
C2_Witness ==
    /\ ret.op = "Set" /\ ret.status = "OK"
    /\ \E old \in ret.removed : old.isTTLBased /\ old.value # TheRow(rows, ret.key).value
    /\ ~TheRow(rows, ret.key).isTTLBased

RedisView == [k \in Keys |-> IF RedisLive(rdata[k]) THEN rdata[k] ELSE Absent]

\* C4: Delete on both backends.  Delete(k) of a key with no record fails
\* with KeyNotFound and leaves the store unchanged; Delete(k) of an existing
\* key succeeds, removes only that key's record, and a Get(k) that follows
\* fails with KeyNotFound.
C4_Delete ==
    [][ \A k \in Keys :
          /\ (PgDelete(k) /\ ~dbClosed) =>
                IF RowsOf(rows, k) = {}
                  THEN ret'.status = "KeyNotFound" /\ rows' = rows
                  ELSE /\ ret'.status = "OK"
                       /\ rows' = rows \ RowsOf(rows, k)
                       /\ PgGetResult(k)'.status = "KeyNotFound"
          /\ (RedisDelete(k) /\ ~rClosed) =>
                IF ~RedisLive(rdata[k])
                  THEN ret'.status = "KeyNotFound" /\ RedisView' = RedisView
                  ELSE /\ ret'.status = "OK"
                       /\ \A j \in Keys \ {k} : rdata'[j] = rdata[j]
                       /\ ~RedisLive(rdata[k])'
      ]_vars

C6_NoSweepAfterShutdown ==
    [][ cancelled => ~(sweeper.pc = "Idle" /\ sweeper'.pc = "Running") ]_vars

\* C7: close ordering.  The connection is released only after the shutdown
\* signal and after any sweep pass in flight has finished: no sweep pass is
\* Running while the connection is released.
C7_CloseOrdering ==
    dbClosed => (cancelled /\ sweeper.pc # "Running")

\* C8: close is idempotent and final.  A second CloseConn returns without
\* error and changes nothing; a Get, Set, SetWithTTL or Delete that runs on a
\* closed store returns an error and leaves the records unchanged; on both
\* backends.
C8_CloseIdempotentFinal ==
    [][ /\ \A c \in Callers :
              (PgCloseDB(c) /\ dbClosed) => (ret'.status = "OK" /\ rows' = rows)
        /\ (RedisCloseConn /\ rClosed) => (ret'.status = "OK" /\ rdata' = rdata)
        /\ (dbClosed \/ rClosed) =>
              /\ rows' = rows /\ rdata' = rdata
              /\ dbClosed' = dbClosed /\ rClosed' = rClosed
              /\ ret'.op \in {"Get", "Set", "SetWithTTL", "Delete"} =>
                    ret'.status = "Error"
      ]_vars

\* C9: Delete of an expired-but-unswept record.  On the durable backend a
\* Delete(k) that finds a record of k, live or expired, succeeds and removes
\* it; it fails with KeyNotFound only when no record of k is stored at the
\* moment its statement runs, whatever the cleanup goroutine is doing.
C9_DeleteExpiredUnswept ==
    [][ \A k \in Keys :
          PgDelete(k) =>
             /\ ret'.status = "KeyNotFound" => RowsOf(rows, k) = {}
             /\ (RowsOf(rows, k) # {} /\ ~dbClosed) =>
                   /\ ret'.status = "OK"
                   /\ ret'.removed = RowsOf(rows, k)
                   /\ RowsOf(rows', k) = {}
      ]_vars

\* C9 witness: a Delete has just succeeded on a record that had expired,
\* while a sweep pass that would remove that record was in flight.
C9_Witness ==
    /\ ret.op = "Delete" /\ ret.status = "OK"
    /\ sweeper.pc = "Running"
    /\ \E r \in ret.removed :
          r.isTTLBased /\ r.expiresAt <= now /\ r.expiresAt <= sweeper.now

\* A record whose fields one Set or one SetWithTTL call can have composed.
OneWrite(r) ==
    /\ r.value \in Values
    /\ \/ ~r.isTTLBased /\ r.expiresAt = ZeroTime
       \/ r.isTTLBased /\ \E d \in Durations : r.expiresAt = r.timestamp + d

\* C10: atomic last-write-wins replacement.  The record stored under a key
\* carries the value, isTTLBased, expiresAt and timestamp of one single
\* write, and a Set or SetWithTTL that commits replaces the stored record
\* with its own, also when the stored record has the larger timestamp.
C10_LastWriteWins ==
    [][ /\ \A r \in rows' : OneWrite(r)
        /\ \A c \in Callers, k \in Keys :
              (PgSetCommit(c) /\ pend[c].rec.key = k /\ ~dbClosed) =>
                 RowsOf(rows', k) = {pend[c].rec}
      ]_vars

\* C10 witness: a write has just replaced a record of the other kind (Set
\* against SetWithTTL) that carried a larger timestamp than its own.
C10_Witness ==
    /\ ret.op \in {"Set", "SetWithTTL"} /\ ret.status = "OK"
    /\ \E old \in ret.removed :
          /\ old.timestamp > TheRow(rows, ret.key).timestamp
          /\ old.isTTLBased # TheRow(rows, ret.key).isTTLBased

\* The outcome of a call at the Store contract: success with a value, or
\* the error.
Outcome(r) == <<r.status, r.value>>

\* C11: backend parity.  Whenever the same call has been issued to a durable
\* store and to a cache store that received the same sequence of Set,
\* SetWithTTL, Get, Delete and clock advances, both return the same outcome:
\* success with the same value, or KeyNotFound.
C11_BackendParity ==
    ret.op \in {"Set", "SetWithTTL", "Get", "Delete"} =>
       Outcome(ret.durable) = Outcome(ret.cache)

\* C12: caller cancellation.  A Set, SetWithTTL, Get or Delete called with
\* a context that is done returns an error and leaves the records unchanged;
\* and the cleanup goroutine stops only after CloseConn has cancelled pgCtx,
\* whatever the callers' contexts are.
C12_CallerCancellation ==
    [][ /\ \A c \in Callers :
              CtxOf(c) = "done" =>
                 /\ PgSetCommit(c) => (ret'.status = "Error" /\ rows' = rows)
                 /\ \A k \in Keys :
                       (PgGetBy(c, k) \/ PgDeleteBy(c, k)) =>
                          (ret'.status = "Error" /\ rows' = rows)
        /\ (sweeper.pc # "Stopped" /\ sweeper'.pc = "Stopped") => cancelled
      ]_vars

\* C13: stable creation time.  The createdAt that Get(k) returns is the
\* time of the write that stored the record of k, and it stays the same from
\* one Get(k) to the next as long as no step in between writes k, on the
\* durable and on the cache backend.
C13_StableCreatedAt ==
    [][ \A k \in Keys :
          /\ \A c \in Callers :
                (PgSetCommit(c) /\ pend[c].rec.key = k /\ ~dbClosed) =>
                   PgGetResult(k)'.createdAt = RFC3339(pend[c].rec.timestamp)
          /\ ( /\ ~ \E c \in Callers : PgSetCommit(c) /\ pend[c].rec.key = k
               /\ PgGetResult(k).status = "OK"
               /\ PgGetResult(k)'.status = "OK" ) =>
                PgGetResult(k)'.createdAt = PgGetResult(k).createdAt
          /\ ( /\ ~ \E v \in Values : RedisSet(k, v)
               /\ ~ \E v \in Values, d \in Durations : RedisSetWithTTL(k, v, d)
               /\ RedisGetResult(k).status = "OK"
               /\ RedisGetResult(k)'.status = "OK" ) =>
                RedisGetResult(k)'.createdAt = RedisGetResult(k).createdAt
      ]_vars

\* C14: sweep failure is local.  A sweep pass that fails logs the error and
\* takes the cleanup goroutine from Running back to Idle; it changes no
\* record and nothing else of the store, so the Store operations go on as
\* before; and the goroutine starts a pass, also the one after a failure,
\* only by taking a tick from the ticker.
C14_SweepFailureLocal ==
    [][ /\ ((SweeperDelete \/ SweeperDeleteFails) /\ ret'.status = "Error") =>
              /\ ret'.op = "cleanExpiredRecords"
              /\ sweeper.pc = "Running" /\ sweeper'.pc = "Idle"
              /\ UNCHANGED <<rows, cancelled, dbClosed, tickPending,
                             tickerStopped, pend>>
              /\ \A k \in Keys : PgGetResult(k)' = PgGetResult(k)
        /\ (sweeper.pc # "Running" /\ sweeper'.pc = "Running") =>
              (sweeper.pc = "Idle" /\ tickPending /\ ~tickPending')
      ]_vars

\* C14 witness: a sweep pass has just failed on an open store and left an
\* expired record in the table; the goroutine is back at its select.
C14_Witness ==
    /\ ret.op = "cleanExpiredRecords" /\ ret.status = "Error"
    /\ ~dbClosed /\ ~cancelled
    /\ sweeper.pc = "Idle"
    /\ Expired(rows, now) # {}

\* C15: provider dispatch.  InitializeStore with a name outside the supported
\* providers returns ErrProviderNotFound, no store, and starts no cleanup
\* goroutine; with a supported name it returns either the adapter of that
\* backend (with its cleanup goroutine exactly when it is the durable one) or
\* an initialization error and no store; and as long as there is no store,
\* nothing but the clock runs.
C15_ProviderDispatch ==
    [][ /\ \A name \in Names, connects \in BOOLEAN :
              InitializeStore(name, connects) =>
                 IF name \notin Providers
                   THEN /\ ret'.status = "ProviderNotFound"
                        /\ provider' = "none"
                        /\ sweeper'.pc = "None"
                   ELSE \/ /\ ret'.status = "OK"
                           /\ provider' = name
                           /\ sweeper'.pc =
                                 IF name = "pgsql" THEN "Idle" ELSE "None"
                        \/ /\ ret'.status = "Error"
                           /\ provider' = "none"
                           /\ sweeper'.pc = "None"
        /\ (provider = "none" /\ provider' = "none") =>
              UNCHANGED <<pgVars, redisVars, pend>>
      ]_vars

\* C15 witness: InitializeStore has just refused a name outside the set.
C15_Witness ==
    /\ ret.op = "InitializeStore" /\ ret.status = "ProviderNotFound"
    /\ ret.key \notin Providers
    /\ provider = "none"

\* The records of a key pattern that have not expired.
LiveMatches(pat) ==
    {r \in rows : Glob(pat, KeyChars(r.key))
                     /\ ~(r.isTTLBased /\ r.expiresAt <= now)}

Max(a, b) == IF a > b THEN a ELSE b

\* C16: pagination of the pattern query.  With N live records matching the
\* pattern, a query with limit L and offset O returns min(L, max(0, N - O))
\* records, in descending order of timestamp, all of them live records that
\* match; the total it reports is N whatever L and O are; records that have
\* expired and are still in the table are in neither.
C16_Pagination ==
    (ret.op = "GetByQuery" /\ ret.status = "OK") =>
       LET N == Cardinality(LiveMatches(ret.pattern))
           page == ret.page
       IN  /\ Len(page) = Min(ret.limit, Max(0, N - ret.offset))
           /\ ret.total = N
           /\ \A i \in 1..Len(page) : page[i] \in LiveMatches(ret.pattern)
           /\ \A i, j \in 1..Len(page) :
                 i < j => /\ page[i].timestamp >= page[j].timestamp
                          /\ page[i] # page[j]

\* C16 witness: a query has just returned one record as its page and 1 as
\* its total for a pattern that matches both records of the table, one of
\* which has expired and is still stored.
C16_Witness ==
    /\ ret.op = "GetByQuery" /\ ret.status = "OK"
    /\ ret.pattern = <<"k", "*">>
    /\ ret.offset = 0 /\ ret.limit = MaxLimit
    /\ Cardinality(rows) = 2
    /\ Expired(rows, now) # {}
    /\ ret.total = 1
    /\ Len(ret.page) = 1

\* C17: the sweeper state machine.  The cleanup goroutine is Idle, Running or
\* Stopped; it changes state only from Idle to Running by taking a tick, from
\* Running to Idle by finishing its pass (with or without error), and from
\* Idle to Stopped on the shutdown signal; so it never goes from Running to
\* Stopped, never leaves Stopped, and a pass in progress comes to its end.
C17_SweeperStateMachine ==
    /\ [](sweeper.pc \in {"Idle", "Running", "Stopped"})
    /\ [][ sweeper'.pc # sweeper.pc =>
             \/ /\ sweeper.pc = "Idle" /\ sweeper'.pc = "Running"
                /\ tickPending /\ ~tickPending'
             \/ /\ sweeper.pc = "Running" /\ sweeper'.pc = "Idle"
                /\ ret'.op = "cleanExpiredRecords"
             \/ /\ sweeper.pc = "Idle" /\ sweeper'.pc = "Stopped"
                /\ cancelled
         ]_vars
    /\ (sweeper.pc = "Running") ~> (sweeper.pc = "Idle")

\* C17 witness: a pass is in progress while the shutdown signal is set and
\* the connection is closed.
C17_Witness ==
    /\ sweeper.pc = "Running"
    /\ cancelled /\ dbClosed

\* C18: sweeper termination.  Once CloseConn has signalled shutdown on a
\* durable store the cleanup goroutine reaches Stopped, pending ticks or
\* not; when it is Stopped its ticker is stopped; and from then on it stays
\* Stopped and runs no sweep pass.
C18_SweeperTermination ==
    /\ cancelled ~> (sweeper.pc = "Stopped")
    /\ [](sweeper.pc = "Stopped" => (cancelled /\ tickerStopped))
    /\ [][ sweeper.pc = "Stopped" =>
             /\ sweeper' = sweeper
             /\ tickerStopped'
             /\ ret'.op # "cleanExpiredRecords"
         ]_vars

\* C18 witness: the goroutine has stopped with a tick still in the channel
\* of its ticker, and expired records still in the table.
C18_Witness ==
    /\ sweeper.pc = "Stopped"
    /\ tickPending
    /\ Expired(rows, now) # {}

\* C19: sweep frame.  A sweep pass removes only records that are TTL-based
\* and whose expiry time is at or before the clock reading of the pass, and
\* leaves every other record as it is: in particular a record without TTL,
\* and a record that a Set or SetWithTTL wrote, with a later expiry, between
\* the clock reading of the pass and its DELETE.
C19_SweepFrame ==
    [][ (SweeperDelete \/ SweeperDeleteFails) =>
          /\ rows' \subseteq rows
          /\ \A r \in rows :
                IF r.isTTLBased /\ r.expiresAt <= sweeper.now
                  THEN r \in rows \ rows' => r \in ret'.removed
                  ELSE r \in rows'
      ]_vars

\* C19 witness: a pass has just removed a record and left in the table a
\* record with TTL that was written at or after the clock reading of the
\* pass and expires later.
C19_Witness ==
    /\ ret.op = "cleanExpiredRecords" /\ ret.status = "OK"
    /\ ret.removed # {}
    /\ \E r \in rows : r.isTTLBased /\ r.timestamp = now /\ r.expiresAt > now

====
